---- MODULE Spec2Model ----
(***************************************************************************)
(* Model of streaming_analytics.py: load_data, clean_data and the steps of *)
(* main() (basic statistics, duration statistics, cancellation histogram,  *)
(* monthly aggregation, September adjustment, heatmap).                    *)
(*                                                                         *)
(* A cell of the table is one of                                           *)
(*   <<"str", y, m, d>>  the text "y-m-d" as read from the CSV             *)
(*   <<"nan">>           an empty CSV field (NaN)                          *)
(*   <<"ts", n>>         a Timestamp, n = days since 1970-01-01            *)
(*   <<"nat">>           NaT, the missing datetime                         *)
(* A DataFrame is a sequence of rows [idx, created_date, canceled_date];   *)
(* idx is the row's index label, which drop_duplicates keeps.              *)
(***************************************************************************)
EXTENDS Integers, Sequences, FiniteSets, TLC

VARIABLES csv, df, pc, error, printed, figures,
          subscription_duration, avg_duration, duration_variance, duration_std,
          canceled_month, cancellations_by_month, data

vars == <<csv, df, pc, error, printed, figures,
          subscription_duration, avg_duration, duration_variance, duration_std,
          canceled_month, cancellations_by_month, data>>

\* Largest number of rows of a generated input file.
MaxRows == 3

-----------------------------------------------------------------------------
\* Cell values

Text(y, m, d) == <<"str", y, m, d>>
NaN == <<"nan">>
Timestamp(n) == <<"ts", n>>
NaT == <<"nat">>

IsText(c) == c[1] = "str"
IsTimestamp(c) == c[1] = "ts"
\* pandas isna(): NaN and NaT are missing, text and Timestamps are not.
IsNa(c) == c[1] \in {"nan", "nat"}

-----------------------------------------------------------------------------
\* Proleptic Gregorian calendar, as pandas' datetime parsing and Period use it

IsLeap(y) == (y % 4 = 0 /\ y % 100 # 0) \/ y % 400 = 0

DaysInMonth(y, m) ==
    IF m = 2 THEN (IF IsLeap(y) THEN 29 ELSE 28)
    ELSE IF m \in {4, 6, 9, 11} THEN 30 ELSE 31

ValidDate(y, m, d) ==
    /\ y \in 1678..2261
    /\ m \in 1..12
    /\ d \in 1..DaysInMonth(y, m)

\* Days from 1970-01-01 to y-m-d.
DaysFromCivil(y, m, d) ==
    LET yy  == IF m <= 2 THEN y - 1 ELSE y
        era == yy \div 400
        yoe == yy - era * 400
        mp  == (m + 9) % 12
        doy == (153 * mp + 2) \div 5 + d - 1
        doe == yoe * 365 + yoe \div 4 - yoe \div 100 + doy
    IN  era * 146097 + doe - 719468

\* <<year, month, day>> of the day n days after 1970-01-01.
CivilFromDays(n) ==
    LET z   == n + 719468
        era == z \div 146097
        doe == z - era * 146097
        yoe == (doe - doe \div 1460 + doe \div 36524 - doe \div 146096) \div 365
        doy == doe - (365 * yoe + yoe \div 4 - yoe \div 100)
        mp  == (5 * doy + 2) \div 153
        d   == doy - (153 * mp + 2) \div 5 + 1
        m   == IF mp < 10 THEN mp + 3 ELSE mp - 9
        y   == yoe + era * 400 + (IF m <= 2 THEN 1 ELSE 0)
    IN  <<y, m, d>>

-----------------------------------------------------------------------------
\* pd.to_datetime

\* A cell that to_datetime cannot parse: text that is no calendar date.
Unparsable(c) == IsText(c) /\ ~ValidDate(c[2], c[3], c[4])

\* to_datetime of one parsable cell: text becomes a Timestamp, an empty field
\* becomes NaT, a datetime value is returned as it is.
ParseCell(c) ==
    IF IsText(c) THEN Timestamp(DaysFromCivil(c[2], c[3], c[4]))
    ELSE IF IsNa(c) THEN NaT
    ELSE c

\* errors='coerce': an unparsable cell becomes NaT.
CoerceCell(c) == IF Unparsable(c) THEN NaT ELSE ParseCell(c)

-----------------------------------------------------------------------------
\* Sequence helpers

Range(s) == {s[i] : i \in 1..Len(s)}

RECURSIVE SumSeq(_)
SumSeq(s) == IF s = <<>> THEN 0 ELSE Head(s) + SumSeq(Tail(s))

\* Tables of at most n rows over the row set S.
RECURSIVE SeqsUpTo(_, _)
SeqsUpTo(S, n) ==
    IF n = 0 THEN {<<>>}
    ELSE LET shorter == SeqsUpTo(S, n - 1)
         IN  shorter \cup {Append(t, r) : t \in {u \in shorter : Len(u) = n - 1}, r \in S}

-----------------------------------------------------------------------------
\* load_data and clean_data

\* The data columns of a row: everything but the index label.
Fields(r) == <<r.created_date, r.canceled_date>>

\* pd.read_csv: the rows of the file under a RangeIndex 0..n-1.
load_data(file) ==
    [i \in 1..Len(file) |->
        [idx |-> i - 1,
         created_date |-> file[i].created_date,
         canceled_date |-> file[i].canceled_date]]

\* DataFrame.drop_duplicates(): keeps the first of the rows that agree in every
\* column, in order, each under its original index label.
drop_duplicates(t) ==
    SelectSeq(t, LAMBDA r :
        \A j \in 1..Len(t) : (Fields(t[j]) = Fields(r)) => t[j].idx >= r.idx)

\* Parses created_date with errors='coerce' too: nothing raises.
CreatedDateNeverRaises(t) == FALSE

\* Line 14, strict parsing: raises when some created_date cannot be parsed.
CreatedDateRaises(t) == \E i \in 1..Len(t) : Unparsable(t[i].created_date)

\* Lines 14-15 on the deduplicated table.
ParseColumns(t) ==
    [i \in 1..Len(t) |->
        [idx |-> t[i].idx,
         created_date |-> ParseCell(t[i].created_date),
         canceled_date |-> CoerceCell(t[i].canceled_date)]]

\* clean_data(df): the returned table, or the exception raised.
clean_data(t) ==
    LET d == drop_duplicates(t)
    IN  IF CreatedDateRaises(d)
        THEN [raised |-> TRUE, df |-> <<>>]
        ELSE [raised |-> FALSE, df |-> ParseColumns(d)]

-----------------------------------------------------------------------------
\* Column statistics (pandas skips missing values)

\* Series.dropna() as the sequence of present values.
DropNa(col) == SelectSeq(col, LAMBDA c : ~IsNa(c))

\* Series.min() / Series.max() of a datetime column: NaT when nothing is present.
ColMin(col) ==
    LET p == DropNa(col)
    IN  IF p = <<>> THEN NaT
        ELSE CHOOSE c \in Range(p) : \A e \in Range(p) : c[2] <= e[2]

ColMax(col) ==
    LET p == DropNa(col)
    IN  IF p = <<>> THEN NaT
        ELSE CHOOSE c \in Range(p) : \A e \in Range(p) : c[2] >= e[2]

Column(t, name) ==
    [i \in 1..Len(t) |->
        IF name = "created_date" THEN t[i].created_date ELSE t[i].canceled_date]

\* Line 38: len(df['canceled_date'])
TotalSubscribers(t) == Len(Column(t, "canceled_date"))

\* Counts the rows still active: those without a cancellation date.
CurrentSubscribersActive(t) ==
    Len(t) - Len(DropNa(Column(t, "canceled_date")))

\* Line 39: len(df['canceled_date'].dropna())
CurrentSubscribers(t) == Len(DropNa(Column(t, "canceled_date")))

\* Numbers: <<"num", n, d>> is the rational n/d in lowest terms, d > 0;
\* <<"sqrt", n, d>> is the irrational square root of n/d; NaN is missing.
RECURSIVE Gcd(_, _)
Gcd(a, b) == IF b = 0 THEN a ELSE Gcd(b, a % b)

Abs(a) == IF a < 0 THEN -a ELSE a

Num(n, d) ==
    LET g == Gcd(Abs(n), d)
    IN  <<"num", n \div g, d \div g>>

Days(n) == Num(n, 1)

\* Largest k in lo..hi with k*k <= n.
RECURSIVE ISqrt(_, _, _)
ISqrt(n, lo, hi) ==
    IF lo >= hi THEN lo
    ELSE LET mid == (lo + hi + 1) \div 2
         IN  IF mid * mid <= n THEN ISqrt(n, mid, hi) ELSE ISqrt(n, lo, mid - 1)

Sqrt(q) ==
    IF IsNa(q) THEN NaN
    ELSE LET cap == 46340   \* the largest root whose square fits 32 bits
             rn  == ISqrt(q[2], 0, IF q[2] > cap THEN cap ELSE q[2])
             rd  == ISqrt(q[3], 0, IF q[3] > cap THEN cap ELSE q[3])
         IN  IF rn * rn = q[2] /\ rd * rd = q[3]
             THEN Num(rn, rd)
             ELSE <<"sqrt", q[2], q[3]>>

\* The integer values of the present entries of a numeric column.
Present(col) ==
    LET p == DropNa(col)
    IN  [i \in 1..Len(p) |-> p[i][2]]

\* A mean that is 0 when nothing is present.
MeanZeroWhenEmpty(col) ==
    LET x == Present(col)
    IN  IF x = <<>> THEN Days(0) ELSE Num(SumSeq(x), Len(x))

\* Series.mean(): NaN when nothing is present.
Mean(col) ==
    LET x == Present(col)
    IN  IF x = <<>> THEN NaN ELSE Num(SumSeq(x), Len(x))

\* The population variance (ddof = 0).
VarPopulation(col) ==
    LET x  == Present(col)
        n  == Len(x)
        s  == SumSeq(x)
        s2 == SumSeq([i \in 1..n |-> x[i] * x[i]])
    IN  IF n < 1 THEN NaN ELSE Num(n * s2 - s * s, n * n)

\* Series.var(): sample variance (ddof = 1), NaN for fewer than two values.
Var(col) ==
    LET x  == Present(col)
        n  == Len(x)
        s  == SumSeq(x)
        s2 == SumSeq([i \in 1..n |-> x[i] * x[i]])
    IN  IF n < 2 THEN NaN ELSE Num(n * s2 - s * s, n * (n - 1))

\* Series.std(): the square root of var().
Std(col) == Sqrt(Var(col))

\* (canceled - created).dt.days of one row: NaN when either date is missing.
DurationDays(r) ==
    IF IsNa(r.canceled_date) \/ IsNa(r.created_date) THEN NaN
    ELSE Days(r.canceled_date[2] - r.created_date[2])

\* f"{x:.kf}": "nan" for a missing value, else the number x at k decimals.
Format(x, k) == IF IsNa(x) THEN <<"nan">> ELSE <<"fixed", k>> \o x

-----------------------------------------------------------------------------
\* Monthly aggregation

\* to_period('Q'): the quarter, named by its first month.
ToPeriodQuarter(c) ==
    IF IsNa(c) THEN NaT
    ELSE LET ymd == CivilFromDays(c[2])
         IN  <<"period", ymd[1], 3 * ((ymd[2] - 1) \div 3) + 1>>

\* Series.dt.to_period('M') of one cell: <<"period", year, month>>, NaT if missing.
ToPeriod(c) ==
    IF IsNa(c) THEN NaT
    ELSE LET ymd == CivilFromDays(c[2])
         IN  <<"period", ymd[1], ymd[2]>>

\* Period.to_timestamp(): the first day of the month.
ToTimestamp(p) == Timestamp(DaysFromCivil(p[2], p[3], 1))

\* Timestamp.month
Month(ts) == CivilFromDays(ts[2])[2]

PeriodKey(p) == p[2] * 12 + p[3]

\* The periods of S in chronological order.
RECURSIVE SortPeriods(_)
SortPeriods(S) ==
    IF S = {} THEN <<>>
    ELSE LET first == CHOOSE p \in S : \A q \in S : PeriodKey(p) <= PeriodKey(q)
         IN  <<first>> \o SortPeriods(S \ {first})

\* df.groupby(col).size().reset_index(name='count'): one row per distinct
\* present key, keys sorted, rows with a missing key left out.
GroupBySize(col) ==
    LET keys == SortPeriods(Range(DropNa(col)))
    IN  [k \in 1..Len(keys) |->
            [canceled_month |-> keys[k],
             count |-> Cardinality({i \in 1..Len(col) : col[i] = keys[k]})]]

\* The present values assigned by position: they move to the top rows.
AssignDropNaPositional(t) ==
    LET kept == SelectSeq(t, LAMBDA r : ~IsNa(r.canceled_date))
    IN  [i \in 1..Len(t) |->
            [idx |-> t[i].idx,
             created_date |-> t[i].created_date,
             canceled_date |->
                IF i <= Len(kept) THEN kept[i].canceled_date ELSE NaT]]

\* Line 75: the column is replaced by its own dropna(); assignment aligns on the
\* index label, and a label the right-hand side lacks receives NaT.
AssignDropNa(t) ==
    LET kept == {i \in 1..Len(t) : ~IsNa(t[i].canceled_date)}
    IN  [i \in 1..Len(t) |->
            [idx |-> t[i].idx,
             created_date |-> t[i].created_date,
             canceled_date |->
                IF \E j \in kept : t[j].idx = t[i].idx
                THEN t[CHOOSE j \in kept : t[j].idx = t[i].idx].canceled_date
                ELSE NaT]]

\* round(count * (30 / 8)) in place of int(): to the nearest integer.
ScaleSeptemberRounded(count) == (count * 30 + 4) \div 8

\* Line 104: int(count * (30 / 8)); 30/8 = 3.75 and the product are exact in
\* binary floating point, int() drops the fraction.
ScaleSeptember(count) == (count * 30) \div 8

\* Lines 103-104 on the counts row.
AdjustLast(cbm, row) ==
    IF Month(cbm[Len(cbm)].canceled_month) = 9
    THEN [row EXCEPT ![Len(row)] = ScaleSeptember(row[Len(row)])]
    ELSE row

-----------------------------------------------------------------------------
\* Input files

Row(c, x) == [created_date |-> c, canceled_date |-> x]

CreatedTexts == {Text(2023, 1, 1), NaN, Text(2023, 2, 30)}

CanceledTexts ==
    {Text(2023, 2, 10), Text(2023, 9, 8), Text(2024, 9, 1), NaN, Text(2023, 13, 1)}

RowTexts == {Row(c, x) : c \in CreatedTexts, x \in CanceledTexts}

\* Five rows, two of them repeats; of the three distinct rows one is active.
FixtureDuplicates ==
    <<Row(Text(2023, 1, 1), Text(2023, 1, 11)),
      Row(Text(2023, 1, 1), NaN),
      Row(Text(2023, 1, 1), Text(2023, 1, 11)),
      Row(Text(2023, 1, 1), Text(2023, 2, 10)),
      Row(Text(2023, 1, 1), NaN)>>

\* Three subscriptions lasting 10, 20 and 30 days.
FixtureDurations ==
    <<Row(Text(2023, 1, 1), Text(2023, 1, 11)),
      Row(Text(2023, 1, 1), Text(2023, 1, 21)),
      Row(Text(2023, 1, 1), Text(2023, 1, 31))>>

InputFiles == SeqsUpTo(RowTexts, MaxRows) \cup {FixtureDuplicates, FixtureDurations}

-----------------------------------------------------------------------------
\* main()

Unset == <<"unset">>

Say(label, value) == [label |-> label, value |-> value]

Init ==
    /\ csv \in InputFiles
    /\ df = <<>>
    /\ pc = "load"
    /\ error = "none"
    /\ printed = <<>>
    /\ figures = 0
    /\ subscription_duration = <<>>
    /\ avg_duration = Unset
    /\ duration_variance = Unset
    /\ duration_std = Unset
    /\ canceled_month = <<>>
    /\ cancellations_by_month = <<>>
    /\ data = <<>>

\* Line 21
Load ==
    /\ pc = "load"
    /\ df' = load_data(csv)
    /\ pc' = "clean"
    /\ UNCHANGED <<csv, error, printed, figures, subscription_duration, avg_duration,
                   duration_variance, duration_std, canceled_month,
                   cancellations_by_month, data>>

\* Line 22
Clean ==
    /\ pc = "clean"
    /\ LET r == clean_data(df)
       IN  IF r.raised
           THEN /\ pc' = "failed"
                /\ error' = "ValueError"
                /\ df' = df
           ELSE /\ pc' = "basic_stats"
                /\ error' = error
                /\ df' = r.df
    /\ UNCHANGED <<csv, printed, figures, subscription_duration, avg_duration,
                   duration_variance, duration_std, canceled_month,
                   cancellations_by_month, data>>

\* Lines 28-39
BasicStats ==
    /\ pc = "basic_stats"
    /\ printed' = printed \o
         << Say("Dataset tiemframe start:", ColMin(Column(df, "created_date"))),
            Say("Dataset timeframe end:", ColMax(Column(df, "created_date"))),
            Say("Total subscribers:", <<"int", TotalSubscribers(df)>>),
            Say("Current subscribers:", <<"int", CurrentSubscribers(df)>>) >>
    /\ pc' = "duration_stats"
    /\ UNCHANGED <<csv, df, error, figures, subscription_duration, avg_duration,
                   duration_variance, duration_std, canceled_month,
                   cancellations_by_month, data>>

\* Lines 58-66
DurationStats ==
    /\ pc = "duration_stats"
    /\ LET col == [i \in 1..Len(df) |-> DurationDays(df[i])]
       IN  /\ subscription_duration' = col
           /\ avg_duration' = Mean(col)
           /\ duration_variance' = Var(col)
           /\ duration_std' = Std(col)
           /\ printed' = printed \o
                << Say("Average subscription duration:", Format(Mean(col), 1)),
                   Say("Variance of subscription duration:", Format(Var(col), 2)),
                   Say("Standard deviation of subscription duration:",
                       Format(Std(col), 2)) >>
    /\ pc' = "histogram"
    /\ UNCHANGED <<csv, df, error, figures, canceled_month,
                   cancellations_by_month, data>>

\* Lines 75-83
Histogram ==
    /\ pc = "histogram"
    /\ df' = AssignDropNa(df)
    /\ figures' = figures + 1
    /\ pc' = "aggregate"
    /\ UNCHANGED <<csv, error, printed, subscription_duration, avg_duration,
                   duration_variance, duration_std, canceled_month,
                   cancellations_by_month, data>>

\* Lines 92-98
Aggregate ==
    /\ pc = "aggregate"
    /\ LET col == [i \in 1..Len(df) |-> ToPeriod(df[i].canceled_date)]
           grp == GroupBySize(col)
       IN  /\ canceled_month' = col
           /\ cancellations_by_month' =
                [k \in 1..Len(grp) |->
                    [canceled_month |-> ToTimestamp(grp[k].canceled_month),
                     count |-> grp[k].count]]
           /\ data' = [k \in 1..Len(grp) |-> grp[k].count]
    /\ pc' = "adjust"
    /\ UNCHANGED <<csv, df, error, printed, figures, subscription_duration,
                   avg_duration, duration_variance, duration_std>>

\* Lines 103-104: iloc[-1] of an empty column raises IndexError.
Adjust ==
    /\ pc = "adjust"
    /\ IF cancellations_by_month = <<>>
       THEN /\ pc' = "failed"
            /\ error' = "IndexError"
            /\ data' = data
       ELSE /\ pc' = "heatmap"
            /\ error' = error
            /\ data' = AdjustLast(cancellations_by_month, data)
    /\ UNCHANGED <<csv, df, printed, figures, subscription_duration, avg_duration,
                   duration_variance, duration_std, canceled_month,
                   cancellations_by_month>>

\* Lines 107-121
Heatmap ==
    /\ pc = "heatmap"
    /\ figures' = figures + 1
    /\ pc' = "done"
    /\ UNCHANGED <<csv, df, error, printed, subscription_duration, avg_duration,
                   duration_variance, duration_std, canceled_month,
                   cancellations_by_month, data>>

Next ==
    \/ Load
    \/ Clean
    \/ BasicStats
    \/ DurationStats
    \/ Histogram
    \/ Aggregate
    \/ Adjust
    \/ Heatmap

Spec == Init /\ [][Next]_vars

-----------------------------------------------------------------------------
\* clean_data applied twice

CleanOnce ==
    /\ pc = "load"
    /\ LET r == clean_data(load_data(csv))
       IN  IF r.raised
           THEN /\ pc' = "failed"
                /\ error' = "ValueError"
                /\ df' = df
           ELSE /\ pc' = "cleaned"
                /\ error' = error
                /\ df' = r.df
    /\ UNCHANGED <<csv, printed, figures, subscription_duration, avg_duration,
                   duration_variance, duration_std, canceled_month,
                   cancellations_by_month, data>>

CleanAgain ==
    /\ pc = "cleaned"
    /\ LET r == clean_data(df)
       IN  IF r.raised
           THEN /\ pc' = "failed"
                /\ error' = "ValueError"
                /\ df' = df
           ELSE /\ pc' = "recleaned"
                /\ error' = error
                /\ df' = r.df
    /\ UNCHANGED <<csv, printed, figures, subscription_duration, avg_duration,
                   duration_variance, duration_std, canceled_month,
                   cancellations_by_month, data>>

NextClean ==
    \/ CleanOnce
    \/ CleanAgain

SpecClean == Init /\ [][NextClean]_vars

-----------------------------------------------------------------------------
\* Properties

\* clean_data has returned (line 22 is behind).
Cleaned == pc \notin {"load", "clean"} /\ error # "ValueError"

AfterBasicStats == Cleaned /\ pc # "basic_stats"

AfterDurationStats == AfterBasicStats /\ pc # "duration_stats"

AfterAggregate == AfterDurationStats /\ pc \notin {"histogram", "aggregate"}

PrintedValue(label) ==
    printed[CHOOSE i \in 1..Len(printed) : printed[i].label = label].value

\* The row of the input file that a row of the table was read from.
Source(r) == csv[r.idx + 1]

NoCancellation == \A i \in 1..Len(df) : IsNa(df[i].canceled_date)

\* C1: the table returned by clean_data holds no two rows equal in all fields.
CleanedRowsDistinct ==
    Cleaned =>
        \A i, j \in 1..Len(df) : i # j => Fields(df[i]) # Fields(df[j])

\* C2: cleaning the cleaned table again returns the same rows in the same order.
CleanTwiceIsCleanOnce ==
    pc = "recleaned" => df = clean_data(load_data(csv)).df

\* C3: 'Total subscribers' is the row count of the cleaned table, 'Current
\* subscribers' is the number of rows with a present canceled_date, and the
\* total is the reported current count plus the rows without canceled_date;
\* the five-row file with two repeats reports total 3, current 2, missing 1.
ReportedCounts ==
    AfterBasicStats =>
        LET total   == PrintedValue("Total subscribers:")
            current == PrintedValue("Current subscribers:")
            present == {i \in 1..Len(df) : IsTimestamp(df[i].canceled_date)}
            missing == {i \in 1..Len(df) : df[i].canceled_date = NaT}
        IN  /\ total = <<"int", Len(df)>>
            /\ current = <<"int", Cardinality(present)>>
            /\ total[2] = Cardinality(missing) + current[2]
            /\ csv = FixtureDuplicates =>
                 /\ total[2] = 3
                 /\ current[2] = 2
                 /\ Cardinality(missing) = 1

ReportedCountsWitness ==
    /\ pc = "done"
    /\ csv = FixtureDuplicates
    /\ PrintedValue("Total subscribers:") = <<"int", 3>>
    /\ PrintedValue("Current subscribers:") = <<"int", 2>>

\* C4: an unparsable created_date fails the run before anything is printed or
\* plotted; an unparsable or empty canceled_date never fails it: the value
\* becomes the missing marker, the row is kept (parsing leaves the row count
\* of the deduplicated table unchanged) and the steps after cleaning run.
ParsingFailures ==
    LET bad  == \E i \in 1..Len(csv) : Unparsable(csv[i].created_date)
        kept == {r.idx : r \in Range(drop_duplicates(load_data(csv)))}
    IN  /\ (bad /\ pc \notin {"load", "clean"}) =>
              /\ pc = "failed"
              /\ error = "ValueError"
              /\ printed = <<>>
              /\ figures = 0
        /\ (~bad /\ pc \notin {"load", "clean"}) =>
              /\ error # "ValueError"
              /\ {df[i].idx : i \in 1..Len(df)} = kept
              /\ Len(df) = Cardinality(kept)
              /\ \A i \in 1..Len(df) :
                    LET c == Source(df[i]).canceled_date
                    IN  (c = NaN \/ (IsText(c) /\ ~ValidDate(c[2], c[3], c[4])))
                            => df[i].canceled_date = NaT
              /\ pc # "basic_stats" => Len(printed) >= 4

ParsingFailuresWitness ==
    /\ pc = "done"
    /\ \E i, j \in 1..Len(df) :
          /\ Source(df[i]).canceled_date = Text(2023, 13, 1)
          /\ df[i].canceled_date = NaT
          /\ Source(df[j]).canceled_date = NaN
          /\ df[j].canceled_date = NaT
          /\ i # j

\* The heatmap row has been adjusted (line 104 is behind).
AfterAdjust == pc \in {"heatmap", "done"}

LastIsSeptember ==
    CivilFromDays(cancellations_by_month[Len(cancellations_by_month)]
                     .canceled_month[2])[2] = 9

\* A date falls in the month that starts on the day first.
InMonthStarting(date, first) ==
    LET ymd == CivilFromDays(first[2])
    IN  /\ first[2] <= date[2]
        /\ date[2] < first[2] + DaysInMonth(ymd[1], ymd[2])

PresentDates == {i \in 1..Len(df) : IsTimestamp(df[i].canceled_date)}

\* C5: the heatmap buckets are exactly the calendar months that hold a present
\* canceled_date, in chronological order, none for missing dates and none
\* empty; each count is the number of rows cancelled in that month, and before
\* the September adjustment the counts sum to the number of present dates;
\* cancellations in January and February of one year give two buckets.
MonthlyBuckets ==
    AfterAggregate =>
        LET cbm == cancellations_by_month
            n   == Len(cbm)
        IN  /\ \A k \in 1..n :
                  /\ cbm[k].canceled_month = Timestamp(cbm[k].canceled_month[2])
                  /\ CivilFromDays(cbm[k].canceled_month[2])[3] = 1
                  /\ cbm[k].count >= 1
                  /\ cbm[k].count =
                       Cardinality({i \in PresentDates :
                          InMonthStarting(df[i].canceled_date, cbm[k].canceled_month)})
            /\ \A i \in PresentDates : \E k \in 1..n :
                  InMonthStarting(df[i].canceled_date, cbm[k].canceled_month)
            /\ \A k \in 1..(n - 1) :
                  cbm[k].canceled_month[2] < cbm[k + 1].canceled_month[2]
            /\ SumSeq([k \in 1..n |-> cbm[k].count]) = Cardinality(PresentDates)
            /\ pc = "adjust" =>
                  /\ Len(data) = n
                  /\ \A k \in 1..n : data[k] = cbm[k].count
            /\ csv = FixtureDuplicates =>
                  /\ n = 2
                  /\ cbm[1] = [canceled_month |-> Timestamp(DaysFromCivil(2023, 1, 1)),
                               count |-> 1]
                  /\ cbm[2] = [canceled_month |-> Timestamp(DaysFromCivil(2023, 2, 1)),
                               count |-> 1]

MonthlyBucketsWitness ==
    /\ pc = "adjust"
    /\ Len(cancellations_by_month) = 2
    /\ cancellations_by_month[2].count = 2
    /\ LastIsSeptember

\* count * 30 / 8 rounded to the nearest integer, ties to even.
RoundNearest(count) ==
    LET q == (count * 30) \div 8
        r == (count * 30) % 8
    IN  IF r > 4 \/ (r = 4 /\ q % 2 = 1) THEN q + 1 ELSE q

\* C6 as stated: a last bucket in September is rendered as its count times
\* 30/8 rounded to the nearest integer; every other bucket is unmodified.
SeptemberRoundedToNearest ==
    AfterAdjust =>
        LET cbm == cancellations_by_month
            n   == Len(cbm)
        IN  /\ Len(data) = n
            /\ \A k \in 1..n :
                  data[k] = IF k = n /\ LastIsSeptember
                            THEN RoundNearest(cbm[k].count)
                            ELSE cbm[k].count

\* C6 amended: a last bucket in September is rendered as its count times 30/8
\* with the fraction dropped; every other bucket, and a last bucket in another
\* month, is rendered with its unmodified count.
SeptemberTruncated ==
    AfterAdjust =>
        LET cbm == cancellations_by_month
            n   == Len(cbm)
        IN  /\ Len(data) = n
            /\ \A k \in 1..n :
                  IF k = n /\ LastIsSeptember
                  THEN /\ 8 * data[k] <= 30 * cbm[k].count
                       /\ 30 * cbm[k].count < 8 * (data[k] + 1)
                  ELSE data[k] = cbm[k].count

SeptemberTruncatedWitness ==
    /\ pc = "done"
    /\ Len(data) = 2
    /\ cancellations_by_month[1].canceled_month = Timestamp(DaysFromCivil(2023, 9, 1))
    /\ cancellations_by_month[2].canceled_month = Timestamp(DaysFromCivil(2024, 9, 1))
    /\ cancellations_by_month[2].count = 2
    /\ data = <<1, 7>>

\* The durations that are present, as integers.
PresentDurations ==
    LET rows == SelectSeq(df, LAMBDA r :
                   IsTimestamp(r.canceled_date) /\ IsTimestamp(r.created_date))
    IN  [i \in 1..Len(rows) |-> rows[i].canceled_date[2] - rows[i].created_date[2]]

\* q is the rational a/b (b > 0).
IsRatio(q, a, b) == q[1] = "num" /\ q[3] > 0 /\ q[2] * b = a * q[3]

\* The statistics of the present durations: the mean, the sample variance
\* (squared deviations from the mean over n - 1) and its square root.
StatisticsOfPresentDurations ==
    LET x   == PresentDurations
        n   == Len(x)
        s   == SumSeq(x)
        dev == SumSeq([i \in 1..n |-> (n * x[i] - s) * (n * x[i] - s)])
        v   == duration_variance
        sd  == duration_std
    IN  /\ IF n = 0 THEN avg_duration = NaN ELSE IsRatio(avg_duration, s, n)
        /\ IF n < 2 THEN v = NaN ELSE IsRatio(v, dev, n * n * (n - 1))
        /\ IF n < 2 THEN sd = NaN
           ELSE \/ /\ sd[1] = "num"
                   /\ sd[2] >= 0
                   /\ IsRatio(v, sd[2] * sd[2], sd[3] * sd[3])
                \/ /\ sd[1] = "sqrt"
                   /\ sd[2] = v[2]
                   /\ sd[3] = v[3]
        /\ csv = FixtureDurations =>
              /\ x = <<10, 20, 30>>
              /\ avg_duration = Days(20)
              /\ v = Days(100)
              /\ sd = Days(10)

EmptyDurationStatistics ==
    (AfterDurationStats /\ NoCancellation) =>
        /\ avg_duration = NaN
        /\ duration_variance = NaN
        /\ duration_std = NaN
        /\ PrintedValue("Average subscription duration:") = <<"nan">>
        /\ PrintedValue("Variance of subscription duration:") = <<"nan">>
        /\ PrintedValue("Standard deviation of subscription duration:") = <<"nan">>
        /\ Len(printed) = 7
        /\ pc = "failed" => (error = "IndexError" /\ figures = 1)

EmptyDurationStatisticsWitness ==
    /\ pc = "aggregate"
    /\ Len(df) = 2
    /\ NoCancellation
    /\ avg_duration = NaN
    /\ figures = 1

CompletesWithoutCancellations ==
    (Cleaned /\ NoCancellation) => pc # "failed"

====
